---------------------------- MODULE Spec2Model ----------------------------
(***************************************************************************)
(* snackbuddy-deals: the deal normalisation and aggregation engine.        *)
(*                                                                         *)
(*   build_deals_json_from_csv.py  main(): one pass over the CSV rows,     *)
(*       each row dropped, turned into a deal, or fatal (an exception no   *)
(*       handler catches);                                                 *)
(*   generate_deals_page.py        group_deals(): one pass over the deals  *)
(*       read back from deals_today.json, then the finalising loop.        *)
(*                                                                         *)
(* Text is a sequence of character codes, so that strip(), lower(),        *)
(* split(), find() and the comparison used by sort() are computed, not     *)
(* assumed.  A Python float is a fixed-point integer counting 1/Scale;     *)
(* binary representation noise is outside the model, and a decimal tie is  *)
(* rounded half to even, as round() does on an exact tie.                  *)
(***************************************************************************)
EXTENDS Integers, Sequences, FiniteSets, TLC

Scale == 10 ^ 5

(***************************************************************************)
(* Character classes and the str methods the two scripts call.             *)
(***************************************************************************)
SPACE == 32
LPAREN == 40
RPAREN == 41
PLUS == 43
MINUS == 45
DOT == 46

IsSpace(c) == c \in {9, 10, 11, 12, 13, SPACE}
IsDigit(c) == c \in 48..57
LowerChar(c) == IF c \in 65..90 THEN c + 32 ELSE c

lower(s) == [k \in 1..Len(s) |-> LowerChar(s[k])]

RECURSIVE lstrip(_)
lstrip(s) == IF s # <<>> /\ IsSpace(Head(s)) THEN lstrip(Tail(s)) ELSE s

RECURSIVE rstrip(_)
rstrip(s) ==
    IF s # <<>> /\ IsSpace(s[Len(s)]) THEN rstrip(SubSeq(s, 1, Len(s) - 1)) ELSE s

strip(s) == rstrip(lstrip(s))

startswith(s, p) == Len(p) <= Len(s) /\ SubSeq(s, 1, Len(p)) = p

\* str.find: the lowest 0-based index at which sub occurs in s, or -1.
RECURSIVE find_from(_, _, _)
find_from(s, sub, k) ==
    IF k + Len(sub) > Len(s) THEN -1
    ELSE IF \A j \in 1..Len(sub) : s[k + j] = sub[j] THEN k
    ELSE find_from(s, sub, k + 1)

find(s, sub) == find_from(s, sub, 0)

contains(s, sub) == find(s, sub) >= 0

\* str.split() with no argument: the maximal runs of non-whitespace.
RECURSIVE split(_)
split(s) ==
    LET t == lstrip(s)
        stops == {k \in 1..Len(t) : IsSpace(t[k])}
        n == IF stops = {} THEN Len(t) + 1 ELSE CHOOSE k \in stops : \A j \in stops : k <= j
    IN  IF t = <<>> THEN <<>>
        ELSE <<SubSeq(t, 1, n - 1)>> \o split(SubSeq(t, n, Len(t)))

\* " ".join(parts)
RECURSIVE join(_)
join(parts) ==
    IF parts = <<>> THEN <<>>
    ELSE IF Len(parts) = 1 THEN parts[1]
    ELSE parts[1] \o <<SPACE>> \o join(Tail(parts))

\* The order of str under <: by code point, a proper prefix first.
RECURSIVE StrLess(_, _)
StrLess(a, b) ==
    IF b = <<>> THEN FALSE
    ELSE IF a = <<>> THEN TRUE
    ELSE IF Head(a) # Head(b) THEN Head(a) < Head(b)
    ELSE StrLess(Tail(a), Tail(b))

\* str(n) for an int n.
RECURSIVE DigitsOf(_)
DigitsOf(n) == IF n < 10 THEN <<48 + n>> ELSE DigitsOf(n \div 10) \o <<48 + (n % 10)>>

IntToStr(n) == IF n < 0 THEN <<MINUS>> \o DigitsOf(-n) ELSE DigitsOf(n)

(***************************************************************************)
(* Python values as the two scripts meet them: a missing column (absent),  *)
(* None, NaN (an empty CSV cell), int, float (v counts 1/Scale) and str.   *)
(***************************************************************************)
Absent == [t |-> "absent", v |-> 0, s |-> <<>>]
None == [t |-> "none", v |-> 0, s |-> <<>>]
NaN == [t |-> "nan", v |-> 0, s |-> <<>>]
PyInt(n) == [t |-> "int", v |-> n, s |-> <<>>]
PyFloat(n) == [t |-> "float", v |-> n, s |-> <<>>]
PyStr(x) == [t |-> "str", v |-> 0, s |-> x]
EmptyStr == PyStr(<<>>)

\* row.get(k) and row.get(k, default)
Get(row, k) == IF row[k] = Absent THEN None ELSE row[k]
GetDefault(row, k, d) == IF row[k] = Absent THEN d ELSE row[k]

\* bool(x): None, "", 0 and 0.0 are false; NaN is true.
Truthy(x) ==
    CASE x.t = "none" -> FALSE
      [] x.t = "str" -> x.s # <<>>
      [] x.t \in {"int", "float"} -> x.v # 0
      [] OTHER -> TRUE

\* a or b
Or(a, b) == IF Truthy(a) THEN a ELSE b

\* pd.isna(x) on a scalar
isna(x) == x.t \in {"none", "nan"}

\* The decimal literals float() and int() accept here: optional sign, digits,
\* at most one point, surrounding whitespace.  (Exponents, "inf", "nan" and
\* underscores are not in the texts the model draws.)
RECURSIVE DigitsVal(_)
DigitsVal(d) == IF d = <<>> THEN 0 ELSE DigitsVal(SubSeq(d, 1, Len(d) - 1)) * 10 + (d[Len(d)] - 48)

Unsigned(s) == IF s # <<>> /\ Head(s) \in {PLUS, MINUS} THEN Tail(s) ELSE s
SignOf(s) == IF s # <<>> /\ Head(s) = MINUS THEN -1 ELSE 1
AllDigits(d) == \A k \in 1..Len(d) : IsDigit(d[k])

IsIntLiteral(s) ==
    LET b == Unsigned(strip(s)) IN b # <<>> /\ AllDigits(b)

IntLiteral(s) == SignOf(strip(s)) * DigitsVal(Unsigned(strip(s)))

IntPart(b) == IF find(b, <<DOT>>) < 0 THEN b ELSE SubSeq(b, 1, find(b, <<DOT>>))
FracPart(b) == IF find(b, <<DOT>>) < 0 THEN <<>> ELSE SubSeq(b, find(b, <<DOT>>) + 2, Len(b))

IsFloatLiteral(s) ==
    LET b == Unsigned(strip(s))
    IN  /\ AllDigits(IntPart(b))
        /\ AllDigits(FracPart(b))
        /\ Len(IntPart(b)) + Len(FracPart(b)) >= 1

FloatLiteral(s) ==
    LET b == Unsigned(strip(s))
        f == FracPart(b)
        f5 == IF Len(f) >= 5 THEN SubSeq(f, 1, 5) ELSE f
    IN  SignOf(strip(s)) * (DigitsVal(IntPart(b)) * Scale + DigitsVal(f5) * 10 ^ (5 - Len(f5)))

\* float(x): raises TypeError on None, ValueError on text that is no number.
FloatRaises(x) == x.t = "none" \/ (x.t = "str" /\ ~IsFloatLiteral(x.s))

FloatOf(x) ==
    CASE x.t = "int" -> PyFloat(x.v * Scale)
      [] x.t = "str" -> PyFloat(FloatLiteral(x.s))
      [] OTHER -> x

\* int(x): raises on None, on NaN and on text that is no integer literal;
\* truncates a float toward zero.
IntRaises(x) == x.t \in {"none", "nan"} \/ (x.t = "str" /\ ~IsIntLiteral(x.s))

IntOf(x) ==
    CASE x.t = "float" -> IF x.v >= 0 THEN x.v \div Scale ELSE -((-x.v) \div Scale)
      [] x.t = "str" -> IntLiteral(x.s)
      [] OTHER -> x.v

\* n / d rounded to the nearest integer, ties to even (d > 0).
RoundDiv(n, d) ==
    LET q == n \div d
        r == n % d
    IN  IF 2 * r < d THEN q
        ELSE IF 2 * r > d THEN q + 1
        ELSE IF q % 2 = 0 THEN q ELSE q + 1

\* round(x, nd) of a finite float; round(nan, nd) is nan.
RoundFloat(x, nd) ==
    IF x.t = "nan" THEN x
    ELSE PyFloat(RoundDiv(x.v, 10 ^ (5 - nd)) * 10 ^ (5 - nd))

(***************************************************************************)
(* build_deals_json_from_csv.py                                            *)
(***************************************************************************)
s_Unknown == <<85, 110, 107, 110, 111, 119, 110, 32, 112, 114, 111, 100, 117, 99, 116>>   \* "Unknown product"
s_ct == <<99, 116>>        \* "ct"
s_bar == <<98, 97, 114>>   \* "bar"
s_bars == <<98, 97, 114, 115>>   \* "bars"
s_nan == <<110, 97, 110>>  \* "nan"

\* (x or "").strip() and (x or "").lower(): a str method called on whatever
\* the cell holds.  A float (NaN included) or a non-zero int has no such
\* method: AttributeError, which no handler around these calls catches.
StrMethodRaises(x) == Truthy(x) /\ x.t # "str"
OrEmpty(x) == IF Truthy(x) THEN x.s ELSE <<>>

build_product_name_raises(row) ==
    StrMethodRaises(Get(row, "brand")) \/ StrMethodRaises(Get(row, "product_name"))

\* The brand put in front whatever the base name starts with.
build_product_name_always_brand(row) ==
    LET brand_str == strip(OrEmpty(Get(row, "brand")))
        base_str == strip(OrEmpty(Get(row, "product_name")))
        flavor == Get(row, "flavor")
        pack_size == Get(row, "pack_size")
        p1 == IF brand_str # <<>> THEN <<brand_str>> ELSE <<>>
        p2 == IF base_str # <<>> THEN <<base_str>> ELSE <<>>
        p3 == IF flavor.t = "str" /\ strip(flavor.s) # <<>> THEN <<strip(flavor.s)>> ELSE <<>>
        p4 == IF Truthy(pack_size) /\ ~isna(pack_size) /\ ~IntRaises(pack_size)
              THEN <<(<<LPAREN>> \o IntToStr(IntOf(pack_size)) \o s_ct \o <<RPAREN>>)>>
              ELSE <<>>
        parts == p1 \o p2 \o p3 \o p4
    IN  IF parts # <<>> THEN join(parts) ELSE s_Unknown

build_product_name(row) ==
    LET brand_str == strip(OrEmpty(Get(row, "brand")))
        base_str == strip(OrEmpty(Get(row, "product_name")))
        flavor == Get(row, "flavor")
        pack_size == Get(row, "pack_size")
        p1 == IF brand_str # <<>> /\ ~startswith(lower(base_str), lower(brand_str))
              THEN <<brand_str>> ELSE <<>>
        p2 == IF base_str # <<>> THEN <<base_str>> ELSE <<>>
        p3 == IF flavor.t = "str" /\ strip(flavor.s) # <<>> THEN <<strip(flavor.s)>> ELSE <<>>
        p4 == IF Truthy(pack_size) /\ ~isna(pack_size) /\ ~IntRaises(pack_size)
              THEN <<(<<LPAREN>> \o IntToStr(IntOf(pack_size)) \o s_ct \o <<RPAREN>>)>>
              ELSE <<>>
        parts == p1 \o p2 \o p3 \o p4
    IN  IF parts # <<>> THEN join(parts) ELSE s_Unknown

\* get_percent_off returns a float that main() only rounds; the model keeps it
\* exact, as the fraction n / d of a percent (d > 0).
Pct(n, d) == [n |-> n, d |-> d]

\* The fallback tried first: the baseline decides whenever it can.
get_percent_off_baseline_first(row) ==
    LET pct_off_raw == Get(row, "pct_off")
        price == Get(row, "price")
        baseline == Get(row, "baseline")
        b == FloatOf(baseline)
        p == FloatOf(price)
    IN  IF /\ ~isna(baseline)
           /\ ~FloatRaises(baseline)
           /\ ~FloatRaises(price)
           /\ p.t # "nan"
           /\ b.v > 0
           /\ p.v <= b.v
        THEN Pct((b.v - p.v) * 100, b.v)
        ELSE IF ~isna(pct_off_raw) /\ ~FloatRaises(pct_off_raw)
        THEN Pct(FloatOf(pct_off_raw).v * 100, Scale)
        ELSE Pct(0, 1)

\* The fallback dividing by the price instead of the baseline.
get_percent_off_over_price(row) ==
    LET pct_off_raw == Get(row, "pct_off")
        price == Get(row, "price")
        baseline == Get(row, "baseline")
        b == FloatOf(baseline)
        p == FloatOf(price)
    IN  IF ~isna(pct_off_raw) /\ ~FloatRaises(pct_off_raw)
        THEN Pct(FloatOf(pct_off_raw).v * 100, Scale)
        ELSE IF /\ ~isna(baseline)
                /\ ~FloatRaises(baseline)
                /\ ~FloatRaises(price)
                /\ p.t # "nan"
                /\ b.v > 0
                /\ p.v <= b.v
                /\ p.v > 0
        THEN Pct((b.v - p.v) * 100, p.v)
        ELSE Pct(0, 1)

\* The fallback without the test that the price did not rise.
get_percent_off_signed(row) ==
    LET pct_off_raw == Get(row, "pct_off")
        price == Get(row, "price")
        baseline == Get(row, "baseline")
        b == FloatOf(baseline)
        p == FloatOf(price)
    IN  IF ~isna(pct_off_raw) /\ ~FloatRaises(pct_off_raw)
        THEN Pct(FloatOf(pct_off_raw).v * 100, Scale)
        ELSE IF /\ ~isna(baseline)
                /\ ~FloatRaises(baseline)
                /\ ~FloatRaises(price)
                /\ p.t # "nan"
                /\ b.v > 0
        THEN Pct((b.v - p.v) * 100, b.v)
        ELSE Pct(0, 1)

get_percent_off(row) ==
    LET pct_off_raw == Get(row, "pct_off")
        price == Get(row, "price")
        baseline == Get(row, "baseline")
        b == FloatOf(baseline)
        p == FloatOf(price)
    IN  IF ~isna(pct_off_raw) /\ ~FloatRaises(pct_off_raw)
        THEN Pct(FloatOf(pct_off_raw).v * 100, Scale)
        ELSE IF /\ ~isna(baseline)
                /\ ~FloatRaises(baseline)
                /\ ~FloatRaises(price)
                /\ p.t # "nan"
                /\ b.v > 0
                /\ p.v <= b.v
        THEN Pct((b.v - p.v) * 100, b.v)
        ELSE Pct(0, 1)

\* round(float(percent_off), 1)
RoundPct(q) == PyFloat(RoundDiv(q.n * 10, q.d) * (Scale \div 10))

streak_cols == <<"deal_streak_days", "streak_days", "deal_streak", "days_on_deal">>

RECURSIVE streak_from(_, _)
streak_from(row, k) ==
    IF k > Len(streak_cols) THEN None
    ELSE LET val == row[streak_cols[k]]
         IN  IF val = Absent THEN streak_from(row, k + 1)
             ELSE IF isna(val) \/ IntRaises(val) THEN None
             ELSE IF IntOf(val) >= 1 THEN PyInt(IntOf(val))
             ELSE streak_from(row, k + 1)

get_streak_days(row) == streak_from(row, 1)

get_unit_label_raises(row) ==
    /\ ~isna(Get(row, "pack_size"))
    /\ ~IntRaises(Get(row, "pack_size"))
    /\ (StrMethodRaises(Get(row, "category")) \/ StrMethodRaises(Get(row, "section")))

\* A missing pack size taken as one piece.
get_unit_label_default_one(row) ==
    LET pack_size == Get(row, "pack_size")
        count == IF isna(pack_size) \/ IntRaises(pack_size) THEN 1 ELSE IntOf(pack_size)
        category == lower(OrEmpty(Get(row, "category")))
        section == lower(OrEmpty(Get(row, "section")))
    IN  IF contains(category, s_bar) \/ contains(section, s_bar)
        THEN [count |-> PyInt(count), unit |-> PyStr(IF count = 1 THEN s_bar ELSE s_bars)]
        ELSE [count |-> PyInt(count), unit |-> PyStr(s_ct)]

get_unit_label(row) ==
    LET pack_size == Get(row, "pack_size")
        count == IntOf(pack_size)
        category == lower(OrEmpty(Get(row, "category")))
        section == lower(OrEmpty(Get(row, "section")))
    IN  IF isna(pack_size) \/ IntRaises(pack_size)
        THEN [count |-> None, unit |-> None]
        ELSE IF contains(category, s_bar) \/ contains(section, s_bar)
        THEN [count |-> PyInt(count), unit |-> PyStr(IF count = 1 THEN s_bar ELSE s_bars)]
        ELSE [count |-> PyInt(count), unit |-> PyStr(s_ct)]

\* The try around float(price) in main(): the row is skipped when it raises.
PriceSkips(row) == FloatRaises(Get(row, "price"))

\* old_price in main()
old_price_of(row) ==
    LET baseline == Get(row, "baseline")
    IN  IF ~isna(baseline) /\ ~FloatRaises(baseline) THEN FloatOf(baseline) ELSE None

\* The dict main() appends for a row it keeps.  It has no brand, flavor or
\* canonical_url key.
deal_of(row) ==
    [product_name |-> PyStr(build_product_name(row)),
     retailer |-> GetDefault(row, "retailer", EmptyStr),
     section |-> GetDefault(row, "section", EmptyStr),
     category |-> GetDefault(row, "category", EmptyStr),
     old_price |-> old_price_of(row),
     new_price |-> FloatOf(Get(row, "price")),
     percent_off |-> RoundPct(get_percent_off(row)),
     image_url |-> GetDefault(row, "image_url", EmptyStr),
     retailer_url |-> GetDefault(row, "canonical_url", EmptyStr),
     availability |-> GetDefault(row, "availability_norm", EmptyStr),
     verified_at |-> GetDefault(row, "timestamp", EmptyStr),
     deal_strength |-> GetDefault(row, "deal_strength", EmptyStr),
     pack_count |-> get_unit_label(row).count,
     pack_unit |-> get_unit_label(row).unit,
     streak_days |-> get_streak_days(row),
     brand |-> Absent,
     flavor |-> Absent,
     canonical_url |-> Absent]

\* An exception that leaves the loop body of main(): the run ends in a
\* traceback and deals_today.json is not written.
RowIsFatal(row) == build_product_name_raises(row) \/ get_unit_label_raises(row)

(***************************************************************************)
(* generate_deals_page.py                                                  *)
(***************************************************************************)
\* _norm_str(val) == (val or "").strip()
_norm_str_raises(val) == StrMethodRaises(val)
_norm_str(val) == strip(OrEmpty(val))

\* _norm_float_key(val): None for None and for what float() refuses, else
\* round(float(val), 4).  round() of a NaN makes a new float object, and a NaN
\* equals only the very same object when dict keys are compared: id names it.
_norm_float_key(val, id) ==
    IF val.t = "none" \/ FloatRaises(val) THEN None
    ELSE IF FloatOf(val).t = "nan" THEN [t |-> "nan", v |-> id, s |-> <<>>]
    ELSE RoundFloat(FloatOf(val), 4)

\* re.sub(r'\s*\([^)]+\)\s*$', '', name).strip(): the text ends, whitespace
\* aside, with ")" and a "(" stands at least two places before it with no ")"
\* between; the leftmost such "(" and all after it go.
strip_parenthetical(name) ==
    LET q == Len(rstrip(name))
        opens == {k \in 1..(q - 2) :
                     /\ name[k] = LPAREN
                     /\ \A j \in (k + 1)..(q - 1) : name[j] # RPAREN}
        first == CHOOSE k \in opens : \A j \in opens : k <= j
    IN  IF q >= 1 /\ name[q] = RPAREN /\ opens # {}
        THEN strip(SubSeq(name, 1, first - 1))
        ELSE strip(name)

\* The product types tried shortest first.
product_types_shortest_first ==
    << <<98, 97, 114>>,                                                     \* "bar"
       <<99, 104, 105, 112, 115>>,                                          \* "chips"
       <<100, 114, 105, 110, 107>>,                                         \* "drink"
       <<115, 110, 97, 99, 107>>,                                           \* "snack"
       <<99, 111, 111, 107, 105, 101, 115>>,                                \* "cookies"
       <<99, 114, 97, 99, 107, 101, 114, 115>>,                             \* "crackers"
       <<98, 101, 118, 101, 114, 97, 103, 101>>,                            \* "beverage"
       <<112, 114, 111, 116, 101, 105, 110, 32, 98, 97, 114>>,              \* "protein bar"
       <<101, 110, 101, 114, 103, 121, 32, 100, 114, 105, 110, 107>>,       \* "energy drink"
       <<112, 114, 111, 116, 101, 105, 110, 32, 99, 104, 105, 112, 115>> >> \* "protein chips"

\* sorted(product_types, key=len, reverse=True): longest first, equal lengths
\* in the order of the list.
product_types_by_length ==
    << <<112, 114, 111, 116, 101, 105, 110, 32, 99, 104, 105, 112, 115>>,   \* "protein chips"
       <<101, 110, 101, 114, 103, 121, 32, 100, 114, 105, 110, 107>>,       \* "energy drink"
       <<112, 114, 111, 116, 101, 105, 110, 32, 98, 97, 114>>,              \* "protein bar"
       <<99, 114, 97, 99, 107, 101, 114, 115>>,                             \* "crackers"
       <<98, 101, 118, 101, 114, 97, 103, 101>>,                            \* "beverage"
       <<99, 111, 111, 107, 105, 101, 115>>,                                \* "cookies"
       <<99, 104, 105, 112, 115>>,                                          \* "chips"
       <<100, 114, 105, 110, 107>>,                                         \* "drink"
       <<115, 110, 97, 99, 107>>,                                           \* "snack"
       <<98, 97, 114>> >>                                                   \* "bar"

\* The loop of extract_flavor_from_product_name over the product types from
\* the k-th on: the text after the first occurrence of the first type that
\* occurs and leaves a non-empty rest; <<>> when no type does.
RECURSIVE flavor_after_type(_, _, _)
flavor_after_type(name_part, name_lower, k) ==
    IF k > Len(product_types_by_length) THEN <<>>
    ELSE LET ptype == product_types_by_length[k]
             idx == find(name_lower, ptype)
             flavor_part == strip(SubSeq(name_part, idx + Len(ptype) + 1, Len(name_part)))
         IN  IF idx >= 0 /\ flavor_part # <<>> THEN flavor_part
             ELSE flavor_after_type(name_part, name_lower, k + 1)

extract_flavor_from_product_name(product_name) ==
    LET name_part == strip_parenthetical(product_name)
        after_type == flavor_after_type(name_part, lower(name_part), 1)
        words == split(name_part)
    IN  IF product_name = <<>> THEN <<>>
        ELSE IF after_type # <<>> THEN after_type
        ELSE IF Len(words) >= 3 THEN join(Tail(words))
        ELSE name_part

extract_brand_from_product_name(product_name) ==
    IF split(product_name) # <<>> THEN split(product_name)[1] ELSE <<>>

\* The loop of extract_base_product_name over the product types from the k-th
\* on: the text up to the end of the first occurrence of the first type that
\* occurs; <<>> when no type does.
RECURSIVE base_up_to_type(_, _, _)
base_up_to_type(name_part, name_lower, k) ==
    IF k > Len(product_types_by_length) THEN <<>>
    ELSE LET ptype == product_types_by_length[k]
             idx == find(name_lower, ptype)
             base_part == strip(SubSeq(name_part, 1, idx + Len(ptype)))
         IN  IF idx >= 0 /\ base_part # <<>> THEN base_part
             ELSE base_up_to_type(name_part, name_lower, k + 1)

extract_base_product_name(product_name) ==
    LET name_part == strip_parenthetical(product_name)
        up_to_type == base_up_to_type(name_part, lower(name_part), 1)
        words == split(name_part)
    IN  IF product_name = <<>> THEN <<>>
        ELSE IF up_to_type # <<>> THEN up_to_type
        ELSE IF Len(words) >= 2 THEN join(SubSeq(words, 1, 2))
        ELSE name_part

\* f"{x}": str(x) of an int, a str, a NaN or a float (shortest repr of the
\* fixed-point value).
RECURSIVE DropZeros(_)
DropZeros(d) == IF Len(d) > 1 /\ d[Len(d)] = 48 THEN DropZeros(SubSeq(d, 1, Len(d) - 1)) ELSE d

Pad5(d) == [k \in 1..(5 - Len(d)) |-> 48] \o d

Format(x) ==
    CASE x.t = "int" -> IntToStr(x.v)
      [] x.t = "str" -> x.s
      [] x.t = "nan" -> s_nan
      [] x.t = "float" ->
            LET a == IF x.v < 0 THEN -x.v ELSE x.v
            IN  (IF x.v < 0 THEN <<MINUS>> ELSE <<>>) \o DigitsOf(a \div Scale)
                    \o <<DOT>> \o DropZeros(Pad5(DigitsOf(a % Scale)))
      [] OTHER -> <<>>

\* The part of a row group_deals reads before it looks the key up: lines
\* 217-244.  An exception here leaves the map as it was.
KeyRaises(row) ==
    \/ _norm_str_raises(Get(row, "retailer"))
    \/ _norm_str_raises(Get(row, "section"))
    \/ _norm_str_raises(Get(row, "product_name"))
    \/ _norm_str_raises(Get(row, "brand"))
    \/ _norm_str_raises(Get(row, "pack_unit"))

\* The brand always taken from the product name.
brand_of_from_name(row) ==
    extract_brand_from_product_name(_norm_str(Get(row, "product_name")))

brand_of(row) ==
    LET given == _norm_str(Get(row, "brand"))
    IN  IF given # <<>> THEN given
        ELSE extract_brand_from_product_name(_norm_str(Get(row, "product_name")))

pack_size_of(row) ==
    LET pack_count == Get(row, "pack_count")
        pack_unit == _norm_str(Get(row, "pack_unit"))
    IN  IF Truthy(pack_count) /\ pack_unit # <<>> THEN Format(pack_count) \o pack_unit ELSE <<>>

\* The key without its last component.
GroupKey_without_baseline(row, id) ==
    [retailer |-> lower(_norm_str(Get(row, "retailer"))),
     section |-> lower(_norm_str(Get(row, "section"))),
     brand |-> lower(brand_of(row)),
     base_product |-> lower(_norm_str(Get(row, "product_name"))),
     pack_size |-> lower(pack_size_of(row)),
     price_key |-> _norm_float_key(Get(row, "new_price"), id),
     baseline_key |-> None]

GroupKey(row, id) ==
    [retailer |-> lower(_norm_str(Get(row, "retailer"))),
     section |-> lower(_norm_str(Get(row, "section"))),
     brand |-> lower(brand_of(row)),
     base_product |-> lower(_norm_str(Get(row, "product_name"))),
     pack_size |-> lower(pack_size_of(row)),
     price_key |-> _norm_float_key(Get(row, "new_price"), id),
     baseline_key |-> _norm_float_key(Get(row, "old_price"), id)]

\* Lines 255-257: read after the group exists.
url_value(row) == Or(Or(Get(row, "retailer_url"), Get(row, "canonical_url")), EmptyStr)

FlavorRaises(row) == _norm_str_raises(Get(row, "flavor")) \/ _norm_str_raises(url_value(row))

flavor_name_of(row) ==
    LET given == _norm_str(Get(row, "flavor"))
    IN  IF given # <<>> THEN given
        ELSE extract_flavor_from_product_name(_norm_str(Get(row, "product_name")))

retailer_url_of(row) == _norm_str(url_value(row))

\* Line 260: a flavor of the group whose name equals this one, case aside.
\* The names compared as they are spelled.
existing_flavor_exact(flavor_data, flavor_name) ==
    \E k \in 1..Len(flavor_data) : flavor_data[k].name = flavor_name

existing_flavor(flavor_data, flavor_name) ==
    LET wanted == lower(flavor_name)
    IN  \E k \in 1..Len(flavor_data) : lower(flavor_data[k].name) = wanted

\* A row whose flavor is already there replaces the entry: the spelling and
\* the link of the last duplicate stay.
add_flavor_last_wins(flavor_data, row) ==
    LET flavor_name == flavor_name_of(row)
        retailer_url == retailer_url_of(row)
    IN  IF flavor_name = <<>> \/ retailer_url = <<>> THEN flavor_data
        ELSE IF existing_flavor(flavor_data, flavor_name)
        THEN [k \in 1..Len(flavor_data) |->
                 IF lower(flavor_data[k].name) = lower(flavor_name)
                 THEN [name |-> flavor_name, url |-> retailer_url]
                 ELSE flavor_data[k]]
        ELSE Append(flavor_data, [name |-> flavor_name, url |-> retailer_url])

\* Lines 259-266: the group's flavor list after this row.
add_flavor(flavor_data, row) ==
    LET flavor_name == flavor_name_of(row)
        retailer_url == retailer_url_of(row)
    IN  IF /\ ~existing_flavor(flavor_data, flavor_name)
           /\ flavor_name # <<>>
           /\ retailer_url # <<>>
        THEN Append(flavor_data, [name |-> flavor_name, url |-> retailer_url])
        ELSE flavor_data

\* Lines 246-251: a new group is a copy of the row with an empty flavor list.
new_group(row, key) ==
    [key |-> key, rep |-> row, flavor_data |-> <<>>, group_size |-> 0,
     flavor_sample |-> <<>>, flavor_extra_count |-> 0, flavor_extra_data |-> <<>>,
     members |-> {}]

\* flavors.sort(key=lambda x: x["name"].lower()): stable, ascending.
RECURSIVE insert_sorted(_, _)
insert_sorted(sorted, f) ==
    IF sorted = <<>> THEN <<f>>
    ELSE IF StrLess(lower(f.name), lower(sorted[Len(sorted)].name))
    THEN Append(insert_sorted(SubSeq(sorted, 1, Len(sorted) - 1), f), sorted[Len(sorted)])
    ELSE Append(sorted, f)

RECURSIVE sort_flavors(_)
sort_flavors(fl) ==
    IF fl = <<>> THEN <<>>
    ELSE insert_sorted(sort_flavors(SubSeq(fl, 1, Len(fl) - 1)), fl[Len(fl)])

Min(a, b) == IF a <= b THEN a ELSE b
Max(a, b) == IF a >= b THEN a ELSE b

\* The finalising loop without its sort.
finalize_group_unsorted(g) ==
    LET flavors == g.flavor_data
        sample == SubSeq(flavors, 1, Min(2, Len(flavors)))
    IN  [g EXCEPT !.flavor_sample = sample,
                  !.flavor_extra_count = Max(0, Len(flavors) - Len(sample)),
                  !.flavor_extra_data = IF Len(flavors) > 2
                                        THEN SubSeq(flavors, 3, Len(flavors)) ELSE <<>>]

\* Lines 269-281 for one group.
finalize_group(g) ==
    LET flavors == sort_flavors(g.flavor_data)
        sample == SubSeq(flavors, 1, Min(2, Len(flavors)))
    IN  [g EXCEPT !.flavor_data = flavors,
                  !.flavor_sample = sample,
                  !.flavor_extra_count = Max(0, Len(flavors) - Len(sample)),
                  !.flavor_extra_data = IF Len(flavors) > 2
                                        THEN SubSeq(flavors, 3, Len(flavors)) ELSE <<>>]

\* sort_key(d) of build_page_html: (retailer, category, -percent_off,
\* new_price), the texts lower-cased (not trimmed), a falsy number as 0.0.
Neg(x) == IF x.t = "nan" THEN x ELSE PyFloat(-x.v)

sort_key_raises(d) ==
    \/ StrMethodRaises(Get(d, "retailer"))
    \/ StrMethodRaises(Get(d, "category"))
    \/ FloatRaises(Or(Get(d, "percent_off"), PyFloat(0)))
    \/ FloatRaises(Or(Get(d, "new_price"), PyFloat(0)))

sort_key(d) ==
    <<PyStr(lower(OrEmpty(Get(d, "retailer")))),
      PyStr(lower(OrEmpty(Get(d, "category")))),
      Neg(FloatOf(Or(Get(d, "percent_off"), PyFloat(0)))),
      FloatOf(Or(Get(d, "new_price"), PyFloat(0)))>>

\* x == y as the tuple comparison asks it.  -float(nan) is a new object that
\* equals nothing; the NaN new_price values json.load returns are one object,
\* which the comparison takes as equal to itself.
item_eq(x, y, k) == IF k = 3 /\ x.t = "nan" THEN FALSE ELSE x = y

\* x < y for two texts or two floats; false when either is NaN.
item_lt(x, y) ==
    IF x.t = "str" THEN StrLess(x.s, y.s)
    ELSE x.t # "nan" /\ y.t # "nan" /\ x.v < y.v

\* a < b for two key tuples: decided by the first position where they differ.
RECURSIVE tuple_lt_from(_, _, _)
tuple_lt_from(a, b, k) ==
    IF k > Len(a) THEN FALSE
    ELSE IF item_eq(a[k], b[k], k) THEN tuple_lt_from(a, b, k + 1)
    ELSE item_lt(a[k], b[k])

tuple_lt(a, b) == tuple_lt_from(a, b, 1)

\* sorted(grouped_deals, key=sort_key) as list.sort does it below 64 items:
\* the run the list starts with (count_run; a strictly descending run is
\* reversed), then binary insertion of every later item.  Items are
\* [key, val] pairs.
RECURSIVE run_end(_, _, _)
run_end(s, n, descending) ==
    IF n >= Len(s) THEN n
    ELSE IF tuple_lt(s[n + 1].key, s[n].key) = descending THEN run_end(s, n + 1, descending)
    ELSE n

Reverse(s) == [k \in 1..Len(s) |-> s[Len(s) + 1 - k]]

RECURSIVE bisect(_, _, _, _)
bisect(s, pivot, l, r) ==
    IF l >= r THEN l
    ELSE LET p == l + ((r - l) \div 2)
         IN  IF tuple_lt(pivot.key, s[p + 1].key) THEN bisect(s, pivot, l, p)
             ELSE bisect(s, pivot, p + 1, r)

RECURSIVE binarysort(_, _)
binarysort(s, start) ==
    IF start > Len(s) THEN s
    ELSE LET pivot == s[start]
             l == bisect(s, pivot, 0, start - 1)
             moved == SubSeq(s, 1, l) \o <<pivot>> \o SubSeq(s, l + 1, start - 1)
                          \o SubSeq(s, start + 1, Len(s))
         IN  binarysort(moved, start + 1)

list_sort(s) ==
    IF Len(s) < 2 THEN s
    ELSE LET descending == tuple_lt(s[2].key, s[1].key)
             n == run_end(s, 2, descending)
             run == SubSeq(s, 1, n)
             head == IF descending THEN Reverse(run) ELSE run
         IN  binarysort(head \o SubSeq(s, n + 1, Len(s)), n + 1)

\* The sort that puts an item before the items it ties with.
deals_sorted_of_unstable(gs) ==
    LET keyed == [k \in 1..Len(gs) |-> [key |-> sort_key(gs[k].rep), val |-> gs[k]]]
        out == list_sort(Reverse(keyed))
    IN  [k \in 1..Len(out) |-> out[k].val]

deals_sorted_of(gs) ==
    LET keyed == [k \in 1..Len(gs) |-> [key |-> sort_key(gs[k].rep), val |-> gs[k]]]
        out == list_sort(keyed)
    IN  [k \in 1..Len(out) |-> out[k].val]

\* get_badge(deal): the class of the badge, "" for no badge.
badge_elite == "badge badge-elite"
badge_strong == "badge badge-strong"
badge_protein == "badge badge-protein"
badge_everyday == "badge badge-everyday"

badge_percent(deal) ==
    LET raw == GetDefault(deal, "percent_off", PyFloat(0))
    IN  IF FloatRaises(raw) THEN PyFloat(0) ELSE FloatOf(raw)

\* The tiers with their lower bounds exclusive.
get_badge_exclusive(deal) ==
    LET percent_off == badge_percent(deal)
    IN  IF percent_off.t = "nan" THEN ""
        ELSE IF percent_off.v > 25 * Scale THEN badge_elite
        ELSE IF percent_off.v > 20 * Scale THEN badge_strong
        ELSE IF percent_off.v > 10 * Scale THEN badge_protein
        ELSE IF percent_off.v > 0 THEN badge_everyday
        ELSE ""

get_badge(deal) ==
    LET percent_off == badge_percent(deal)
    IN  IF percent_off.t = "nan" THEN ""
        ELSE IF percent_off.v >= 25 * Scale THEN badge_elite
        ELSE IF percent_off.v >= 20 * Scale THEN badge_strong
        ELSE IF percent_off.v >= 10 * Scale THEN badge_protein
        ELSE IF percent_off.v >= 0 THEN badge_everyday
        ELSE ""

\* html.escape(x) calls x.replace: only a str has it.
escape_raises(x) == x.t # "str"

\* build_card_html, lines 333-352: what it reads before the badge.
build_card_html_raises(deal) ==
    \/ StrMethodRaises(GetDefault(deal, "product_name", EmptyStr))
    \/ escape_raises(GetDefault(deal, "retailer", EmptyStr))
    \/ escape_raises(GetDefault(deal, "category", EmptyStr))
    \/ FloatRaises(GetDefault(deal, "percent_off", PyFloat(0)))
    \/ escape_raises(GetDefault(deal, "image_url", EmptyStr))
    \/ escape_raises(GetDefault(deal, "retailer_url", EmptyStr))
    \/ StrMethodRaises(Get(deal, "section"))

\* The card of a family, as far as its badge.
build_card_html(deal) == [badge_class |-> get_badge(deal)]

(***************************************************************************)
(* The state.  csv: the rows read_csv yields; deals: the list main() builds *)
(* and group_deals() reads back; groups: the insertion-ordered map of       *)
(* group_deals, as the sequence of its values; pc, i: where the run stands. *)
(* origin[k] (the CSV row deals[k] came from) and a group's members (the    *)
(* deals it absorbed) are history the code does not keep; the properties    *)
(* are stated with them.                                                    *)
(***************************************************************************)
VARIABLES csv, deals, origin, groups, deals_sorted, cards, previous, names, pc, i

vars == <<csv, deals, origin, groups, deals_sorted, cards, previous, names, pc, i>>

\* One pass of the loop of main(), lines 127-180.
NormaliseRow ==
    /\ pc = "normalise"
    /\ i <= Len(csv)
    /\ IF PriceSkips(csv[i])
       THEN /\ i' = i + 1
            /\ UNCHANGED <<deals, origin, pc>>
       ELSE IF RowIsFatal(csv[i])
       THEN /\ pc' = "raised"
            /\ UNCHANGED <<deals, origin, i>>
       ELSE /\ deals' = Append(deals, deal_of(csv[i]))
            /\ origin' = Append(origin, i)
            /\ i' = i + 1
            /\ pc' = pc
    /\ UNCHANGED <<csv, groups, deals_sorted, cards>>
    /\ UNCHANGED <<previous, names>>

\* Line 182: json.dumps of the list once the loop is over.
WriteJson ==
    /\ pc = "normalise"
    /\ i > Len(csv)
    /\ pc' = "written"
    /\ UNCHANGED <<csv, deals, origin, groups, deals_sorted, cards, i>>
    /\ UNCHANGED <<previous, names>>

\* load_deals(): json.load gives back the same None, NaN, numbers and text;
\* build_page_html then enters group_deals.
LoadDeals ==
    /\ pc = "written"
    /\ pc' = "group"
    /\ i' = 1
    /\ groups' = <<>>
    /\ UNCHANGED <<csv, deals, origin, deals_sorted, cards>>
    /\ UNCHANGED <<previous, names>>

\* No key is ever found: every row opens a family.
group_at_none(gs, key) == 0

\* Only the group opened last is looked at: rows fold only when adjacent.
group_at_last(gs, key) ==
    IF gs # <<>> /\ gs[Len(gs)].key = key THEN Len(gs) ELSE 0

\* The position in groups of the group with this key, 0 when there is none.
group_at(gs, key) ==
    IF \E k \in 1..Len(gs) : gs[k].key = key
    THEN CHOOSE k \in 1..Len(gs) : gs[k].key = key
    ELSE 0

\* The group taking the display fields of every row it absorbs.
absorb_last_wins(g, row, id) ==
    LET flavors == add_flavor(g.flavor_data, row)
    IN  [g EXCEPT !.rep = row,
                  !.flavor_data = flavors,
                  !.group_size = IF flavors # g.flavor_data THEN Len(flavors) ELSE g.group_size,
                  !.members = g.members \cup {id}]

\* The second run keeping something of the first: later rows overwrite the
\* display fields.
absorb_by_run(g, row, id) ==
    LET flavors == add_flavor(g.flavor_data, row)
    IN  [g EXCEPT !.rep = IF previous = <<>> THEN g.rep ELSE row,
                  !.flavor_data = flavors,
                  !.group_size = IF flavors # g.flavor_data THEN Len(flavors) ELSE g.group_size,
                  !.members = g.members \cup {id}]

\* Lines 253-266: the group g after it has absorbed deal number id.
absorb(g, row, id) ==
    LET flavors == add_flavor(g.flavor_data, row)
    IN  [g EXCEPT !.flavor_data = flavors,
                  !.group_size = IF flavors # g.flavor_data THEN Len(flavors) ELSE g.group_size,
                  !.members = g.members \cup {id}]

\* The group being the row itself (g = row): what is written to the group is
\* written to the row that opened it.
rows_after_shared(rows, gs) ==
    [k \in 1..Len(rows) |->
        IF \E g \in 1..Len(gs) : k \in gs[g].members /\ \A b \in gs[g].members : k <= b
        THEN LET g == CHOOSE g \in 1..Len(gs) :
                          k \in gs[g].members /\ \A b \in gs[g].members : k <= b
             IN  [flavor_data |-> gs[g].flavor_data, group_size |-> gs[g].group_size,
                  flavor_sample |-> gs[g].flavor_sample,
                  flavor_extra_count |-> gs[g].flavor_extra_count,
                  flavor_extra_data |-> gs[g].flavor_extra_data] @@ rows[k]
        ELSE rows[k]]

\* The input list once the groups gs have been written.  Line 248: a group is
\* dict(row), a new dict, and its flavor_data a new list (line 249); the
\* values of a row are numbers, texts and None.  No write to a group (lines
\* 249-250, 262-266, 273, 279-281) reaches a row.
rows_after(rows, gs) == rows

\* One pass of the first loop of group_deals, lines 216-266.
GroupRow ==
    /\ pc = "group"
    /\ i <= Len(deals)
    /\ LET row == deals[i]
           key == GroupKey(row, i)
           at == group_at(groups, key)
           opened == IF at = 0 THEN Append(groups, new_group(row, key)) ELSE groups
           pos == IF at = 0 THEN Len(opened) ELSE at
       IN  IF KeyRaises(row)
           THEN /\ pc' = "raised"
                /\ UNCHANGED <<groups, i>>
           ELSE IF FlavorRaises(row)
           THEN /\ pc' = "raised"
                /\ groups' = opened
                /\ UNCHANGED i
           ELSE /\ groups' = [opened EXCEPT ![pos] = absorb(opened[pos], row, i)]
                /\ i' = i + 1
                /\ pc' = pc
    /\ deals' = rows_after(deals, groups')
    /\ UNCHANGED <<csv, origin, deals_sorted, cards>>
    /\ UNCHANGED <<previous, names>>

\* The second loop, lines 268-281, and the return of list(groups.values()).
Finalize ==
    /\ pc = "group"
    /\ i > Len(deals)
    /\ groups' = [k \in 1..Len(groups) |-> finalize_group(groups[k])]
    /\ pc' = "done"
    /\ deals' = rows_after(deals, groups')
    /\ UNCHANGED <<csv, origin, deals_sorted, cards, i>>
    /\ UNCHANGED <<previous, names>>

\* build_page_html, lines 490-501: the default order of the families.
SortFamilies ==
    /\ pc = "done"
    /\ IF \E k \in 1..Len(groups) : sort_key_raises(groups[k].rep)
       THEN pc' = "raised" /\ UNCHANGED deals_sorted
       ELSE pc' = "sorted" /\ deals_sorted' = deals_sorted_of(groups)
    /\ UNCHANGED <<csv, deals, origin, groups, cards, i>>
    /\ UNCHANGED <<previous, names>>

\* build_page_html, line 502: one card per family, in this order.
BuildCards ==
    /\ pc = "sorted"
    /\ IF \E k \in 1..Len(deals_sorted) : build_card_html_raises(deals_sorted[k].rep)
       THEN pc' = "raised" /\ UNCHANGED cards
       ELSE /\ pc' = "page"
            /\ cards' = [k \in 1..Len(deals_sorted) |-> build_card_html(deals_sorted[k].rep)]
    /\ UNCHANGED <<csv, deals, origin, groups, deals_sorted, i>>
    /\ UNCHANGED <<previous, names>>

\* The two scripts run once more on the same CSV file: what the first run
\* gave is kept aside, everything else starts afresh.
RunAgain ==
    /\ pc = "page"
    /\ previous = <<>>
    /\ previous' = <<[deals |-> deals, families |-> deals_sorted, cards |-> cards]>>
    /\ deals' = <<>>
    /\ origin' = <<>>
    /\ groups' = <<>>
    /\ deals_sorted' = <<>>
    /\ cards' = <<>>
    /\ pc' = "normalise"
    /\ i' = 1
    /\ UNCHANGED <<csv, names>>

\* group_deals called once more, on the same rows in another order: what the
\* first call returned is kept aside.
Orders(n) == {f \in [1..n -> 1..n] : \A a, b \in 1..n : f[a] = f[b] => a = b}

Regroup ==
    /\ pc = "done"
    /\ previous = <<>>
    /\ previous' = <<[deals |-> deals, families |-> groups, cards |-> cards]>>
    /\ \E f \in Orders(Len(deals)) : deals' = [k \in 1..Len(deals) |-> deals[f[k]]]
    /\ groups' = <<>>
    /\ pc' = "group"
    /\ i' = 1
    /\ UNCHANGED <<csv, origin, deals_sorted, cards, names>>

\* The two name heuristics called on one product name, in either order.  No
\* name: the state of a run that calls neither on its own.
NoName == [product_name |-> <<>>, base |-> None, flavor |-> None]

ExtractBase ==
    /\ pc = "names"
    /\ names.base = None
    /\ names' = [names EXCEPT !.base = PyStr(extract_base_product_name(names.product_name))]
    /\ UNCHANGED <<csv, deals, origin, groups, deals_sorted, cards, previous, pc, i>>

ExtractFlavor ==
    /\ pc = "names"
    /\ names.flavor = None
    /\ names' = [names EXCEPT !.flavor = PyStr(extract_flavor_from_product_name(names.product_name))]
    /\ UNCHANGED <<csv, deals, origin, groups, deals_sorted, cards, previous, pc, i>>

(***************************************************************************)
(* Inputs.                                                                 *)
(***************************************************************************)
s_Clif == <<67, 108, 105, 102>>   \* "Clif"
s_clif == <<99, 108, 105, 102>>   \* "clif"
s_Bar == <<66, 97, 114>>   \* "Bar"
s_ClifBar == <<67, 108, 105, 102, 32, 66, 97, 114>>   \* "Clif Bar"
s_Cherry == <<67, 104, 101, 114, 114, 121>>   \* "Cherry"
s_cherry == <<99, 104, 101, 114, 114, 121>>   \* "cherry"
s_Vanilla == <<86, 97, 110, 105, 108, 108, 97>>   \* "Vanilla"
s_Apple == <<65, 112, 112, 108, 101>>   \* "Apple"
s_walmart == <<119, 97, 108, 109, 97, 114, 116>>   \* "walmart"
s_Walmart_padded == <<32, 87, 97, 108, 109, 97, 114, 116, 32>>   \* " Walmart "
s_Food == <<70, 111, 111, 100>>   \* "Food"
s_u1 == <<117, 49>>   \* "u1"
s_u2 == <<117, 50>>   \* "u2"
s_u3 == <<117, 51>>   \* "u3"
s_img == <<105, 109, 103>>   \* "img"
s_abc == <<97, 98, 99>>   \* "abc"
s_t0 == <<116, 48>>   \* "t0"
s_in_store == <<105, 110, 95, 115, 116, 111, 114, 101>>   \* "in_store"
s_strong == <<115, 116, 114, 111, 110, 103>>   \* "strong"

\* Dollars and fractions as floats: Money(1, 90000) is 1.9.
Money(units, frac) == PyFloat(units * Scale + frac)

CsvColumns ==
    {"retailer", "section", "category", "brand", "product_name", "flavor", "pack_size",
     "price", "baseline", "pct_off", "image_url", "canonical_url", "availability_norm",
     "timestamp", "deal_strength", "deal_streak_days", "streak_days", "deal_streak",
     "days_on_deal"}

\* A DataFrame has one set of columns: a column is missing in every row or in
\* none.
ColumnsConsistent(rows) ==
    \A c \in CsvColumns : \A a, b \in 1..Len(rows) :
        (rows[a][c] = Absent) <=> (rows[b][c] = Absent)

SeqsUpTo(S, n) == UNION {[1..m -> S] : m \in 0..n}

\* A complete CSV row: "Clif", "Bar", "Cherry" at 10.00, no baseline, no
\* explicit discount, no pack size, no streak column.
CsvBase ==
    [retailer |-> PyStr(s_walmart), section |-> PyStr(s_Food), category |-> PyStr(s_bars),
     brand |-> PyStr(s_Clif), product_name |-> PyStr(s_Bar), flavor |-> PyStr(s_Cherry),
     pack_size |-> NaN, price |-> Money(10, 0), baseline |-> NaN, pct_off |-> NaN,
     image_url |-> PyStr(s_img), canonical_url |-> PyStr(s_u1),
     availability_norm |-> PyStr(s_in_store), timestamp |-> PyStr(s_t0),
     deal_strength |-> PyStr(s_strong),
     deal_streak_days |-> Absent, streak_days |-> Absent, deal_streak |-> Absent,
     days_on_deal |-> Absent]

MaxCsvRows == 3
MaxPctRows == 2
MaxJsonRows == 3

\* The whole pipeline: rows that differ from CsvBase in one cell (two for the
\* pack size with an empty category).
CsvRows ==
    {CsvBase,
     [CsvBase EXCEPT !.flavor = PyStr(s_Vanilla), !.canonical_url = PyStr(s_u2)],
     [CsvBase EXCEPT !.flavor = PyStr(s_cherry), !.canonical_url = PyStr(s_u3)],
     [CsvBase EXCEPT !.price = NaN],
     [CsvBase EXCEPT !.price = PyStr(s_abc)],
     [CsvBase EXCEPT !.price = Absent],
     [CsvBase EXCEPT !.brand = NaN],
     [CsvBase EXCEPT !.retailer = NaN],
     [CsvBase EXCEPT !.canonical_url = NaN],
     [CsvBase EXCEPT !.pack_size = Money(6, 0)],
     [CsvBase EXCEPT !.pack_size = Money(6, 0), !.category = NaN],
     [CsvBase EXCEPT !.baseline = Money(20, 0)],
     [CsvBase EXCEPT !.price = Money(5, 0)]}

\* The discount: every combination of an explicit discount, a price and a
\* baseline.
PctOffs == {NaN, Money(0, 37000), Money(0, -10000), PyStr(s_abc)}
Prices == {Money(10, 0), Money(15, 0), NaN}
Baselines == {NaN, Money(0, 0), Money(10, 0), Money(20, 0), PyStr(s_abc)}

PctRows ==
    {[CsvBase EXCEPT !.pct_off = po, !.price = pr, !.baseline = bl] :
        po \in PctOffs, pr \in Prices, bl \in Baselines}

\* A deal as deals_today.json may hold it.
JsonBase ==
    [product_name |-> PyStr(s_ClifBar), retailer |-> PyStr(s_walmart),
     section |-> PyStr(s_Food), category |-> PyStr(s_bars), old_price |-> None,
     new_price |-> Money(1, 90000), percent_off |-> PyFloat(0), image_url |-> PyStr(s_img),
     retailer_url |-> PyStr(s_u1), availability |-> PyStr(s_in_store),
     verified_at |-> PyStr(s_t0), deal_strength |-> PyStr(s_strong), pack_count |-> None,
     pack_unit |-> None, streak_days |-> None, brand |-> Absent, flavor |-> PyStr(s_Cherry),
     canonical_url |-> Absent]

\* Deals that differ from JsonBase in the flavor and its link, in a part of
\* the key (some of them only in its spelling), or in a value no str method
\* accepts.
JsonRows ==
    {JsonBase,
     [JsonBase EXCEPT !.flavor = PyStr(s_Vanilla), !.retailer_url = PyStr(s_u2)],
     [JsonBase EXCEPT !.flavor = PyStr(s_Apple), !.retailer_url = PyStr(s_u3)],
     [JsonBase EXCEPT !.flavor = PyStr(s_cherry), !.retailer_url = PyStr(s_u2)],
     [JsonBase EXCEPT !.flavor = PyStr(s_Vanilla), !.retailer_url = EmptyStr],
     [JsonBase EXCEPT !.retailer = PyStr(s_Walmart_padded), !.brand = PyStr(s_clif)],
     [JsonBase EXCEPT !.new_price = Money(1, 90004)],
     [JsonBase EXCEPT !.old_price = Money(2, 50000)],
     [JsonBase EXCEPT !.pack_count = PyInt(0), !.pack_unit = PyStr(s_ct)],
     [JsonBase EXCEPT !.new_price = NaN, !.flavor = Absent],
     [JsonBase EXCEPT !.retailer = NaN],
     [JsonBase EXCEPT !.retailer_url = NaN]}

\* Families for the page: deal k has its own baseline, so that no two fold,
\* and the retailer, category, discount and price the order is made of.
s_Target == <<84, 97, 114, 103, 101, 116>>   \* "Target"
s_Chips == <<67, 104, 105, 112, 115>>   \* "Chips"

PageRow(k, retailer, category, percent_off, new_price) ==
    [JsonBase EXCEPT !.old_price = Money(10 + k, 0), !.retailer = retailer,
                     !.category = category, !.percent_off = percent_off,
                     !.new_price = new_price]

MaxPageRows == 3

PageRows ==
    {PageRow(1, PyStr(s_walmart), PyStr(s_bars), Money(0, 0), Money(1, 90000)),
     PageRow(2, PyStr(s_walmart), PyStr(s_bars), Money(0, 0), Money(1, 90000)),
     PageRow(3, PyStr(s_walmart), PyStr(s_bars), Money(0, 0), Money(2, 50000)),
     PageRow(4, PyStr(s_walmart), PyStr(s_bars), Money(0, 0), NaN),
     PageRow(5, PyStr(s_walmart), PyStr(s_bars), Money(25, 0), Money(2, 50000)),
     PageRow(6, PyStr(s_walmart), PyStr(s_bars), Money(24, 90000), Money(1, 90000)),
     PageRow(7, PyStr(s_walmart), PyStr(s_Chips), Money(20, 0), Money(1, 90000)),
     PageRow(8, PyStr(s_Target), PyStr(s_bars), Money(19, 90000), Money(1, 90000)),
     PageRow(9, PyStr(s_Target), PyStr(s_bars), Money(10, 0), Money(2, 50000)),
     PageRow(10, PyStr(s_Walmart_padded), PyStr(s_bars), Money(9, 90000), Money(1, 90000)),
     PageRow(11, PyStr(s_walmart), PyStr(s_bars), Money(-10, 0), Money(1, 90000)),
     PageRow(12, PyStr(s_walmart), NaN, Money(0, 0), Money(1, 90000)),
     [PageRow(13, PyStr(s_walmart), PyStr(s_bars), Money(0, 0), Money(1, 90000))
         EXCEPT !.image_url = NaN]}

\* Structured fields and free text: the brand and the flavor missing, blank
\* or given (with spaces around), under two product names.
s_blank == <<32, 32>>   \* "  "
s_Bar_padded == <<32, 66, 97, 114, 32>>   \* " Bar "
s_Cherry_padded == <<32, 67, 104, 101, 114, 114, 121, 32>>   \* " Cherry "
s_ClifBarCherry == <<67, 108, 105, 102, 32, 66, 97, 114, 32, 67, 104, 101, 114, 114, 121>>   \* "Clif Bar Cherry"

MaxFieldRows == 2

FieldRows ==
    {[JsonBase EXCEPT !.brand = b, !.flavor = f, !.product_name = n] :
        b \in {Absent, PyStr(s_blank), PyStr(s_Bar_padded)},
        f \in {Absent, EmptyStr, PyStr(s_Cherry_padded)},
        n \in {PyStr(s_ClifBar), PyStr(s_ClifBarCherry)}}

\* The streak: the first two streak columns, each missing from the file or
\* holding an empty cell, a count or a text.
MaxStreakRows == 2

StreakCells == {Absent, NaN, PyInt(0), PyInt(5), PyInt(7), PyStr(s_abc)}

StreakRows ==
    {[CsvBase EXCEPT !.deal_streak_days = a, !.streak_days = b] :
        a \in StreakCells, b \in StreakCells}

\* The rows of the repeated run.
MaxTwiceRows == 2

TwiceRows ==
    {CsvBase,
     [CsvBase EXCEPT !.flavor = PyStr(s_Vanilla), !.canonical_url = PyStr(s_u2)],
     [CsvBase EXCEPT !.flavor = PyStr(s_cherry), !.canonical_url = PyStr(s_u3)],
     [CsvBase EXCEPT !.price = NaN],
     [CsvBase EXCEPT !.price = Money(5, 0)],
     [CsvBase EXCEPT !.pack_size = Money(6, 0)],
     [CsvBase EXCEPT !.baseline = Money(20, 0)]}

(***************************************************************************)
(* Specifications.  Spec: both scripts, one after the other.  BuildSpec:   *)
(* build_deals_json_from_csv.py alone.  GroupSpec: group_deals alone, on   *)
(* what the JSON file may hold.                                            *)
(***************************************************************************)
InitFrom(rows) ==
    /\ csv = rows
    /\ deals = <<>>
    /\ origin = <<>>
    /\ groups = <<>>
    /\ deals_sorted = <<>>
    /\ cards = <<>>
    /\ previous = <<>>
    /\ names = NoName
    /\ pc = "normalise"
    /\ i = 1

Init == \E rows \in SeqsUpTo(CsvRows, MaxCsvRows) : ColumnsConsistent(rows) /\ InitFrom(rows)

Next ==
    NormaliseRow \/ WriteJson \/ LoadDeals \/ GroupRow \/ Finalize \/ SortFamilies \/ BuildCards

Spec == Init /\ [][Next]_vars

BuildInit == \E rows \in SeqsUpTo(PctRows, MaxPctRows) : InitFrom(rows)

BuildNext == NormaliseRow \/ WriteJson

BuildSpec == BuildInit /\ [][BuildNext]_vars

GroupInit ==
    /\ csv = <<>>
    /\ deals \in SeqsUpTo(JsonRows, MaxJsonRows)
    /\ origin = <<>>
    /\ groups = <<>>
    /\ deals_sorted = <<>>
    /\ cards = <<>>
    /\ previous = <<>>
    /\ names = NoName
    /\ pc = "group"
    /\ i = 1

GroupNext == GroupRow \/ Finalize

GroupSpec == GroupInit /\ [][GroupNext]_vars

\* build_deals_json_from_csv.py on files with streak columns.
StreakInit ==
    \E rows \in SeqsUpTo(StreakRows, MaxStreakRows) : ColumnsConsistent(rows) /\ InitFrom(rows)

StreakSpec == StreakInit /\ [][BuildNext]_vars

\* Both scripts, run twice on one CSV file.
TwiceInit == \E rows \in SeqsUpTo(TwiceRows, MaxTwiceRows) : InitFrom(rows)

TwiceNext == Next \/ RunAgain

TwiceSpec == TwiceInit /\ [][TwiceNext]_vars

\* group_deals on deals with and without structured brand and flavor.
FieldInit ==
    /\ csv = <<>>
    /\ deals \in SeqsUpTo(FieldRows, MaxFieldRows)
    /\ origin = <<>>
    /\ groups = <<>>
    /\ deals_sorted = <<>>
    /\ cards = <<>>
    /\ previous = <<>>
    /\ names = NoName
    /\ pc = "group"
    /\ i = 1

FieldSpec == FieldInit /\ [][GroupNext]_vars

\* build_page_html: group_deals, the default order, the cards.
PageInit ==
    /\ csv = <<>>
    /\ deals \in SeqsUpTo(PageRows, MaxPageRows)
    /\ origin = <<>>
    /\ groups = <<>>
    /\ deals_sorted = <<>>
    /\ cards = <<>>
    /\ previous = <<>>
    /\ names = NoName
    /\ pc = "group"
    /\ i = 1

PageNext == GroupRow \/ Finalize \/ SortFamilies \/ BuildCards

PageSpec == PageInit /\ [][PageNext]_vars

\* The name heuristics on names of up to MaxNameTokens tokens, one space
\* between two tokens: an empty token gives a leading, trailing or doubled
\* space.
s_Quest == <<81, 117, 101, 115, 116>>   \* "Quest"
s_Barebells == <<66, 97, 114, 101, 98, 101, 108, 108, 115>>   \* "Barebells"
s_Protein == <<80, 114, 111, 116, 101, 105, 110>>   \* "Protein"
s_Lime == <<76, 105, 109, 101>>   \* "Lime"
s_8ct == <<40, 56, 99, 116, 41>>   \* "(8ct)"

MaxNameTokens == 3

NameTokens == {s_Quest, s_Barebells, s_Protein, s_Bar, s_Chips, s_Lime, s_8ct, <<>>}

NameInit ==
    /\ csv = <<>>
    /\ deals = <<>>
    /\ origin = <<>>
    /\ groups = <<>>
    /\ deals_sorted = <<>>
    /\ cards = <<>>
    /\ previous = <<>>
    /\ \E tokens \in SeqsUpTo(NameTokens, MaxNameTokens) :
           names = [NoName EXCEPT !.product_name = join(tokens)]
    /\ pc = "names"
    /\ i = 1

NameNext == ExtractBase \/ ExtractFlavor

NameSpec == NameInit /\ [][NameNext]_vars

\* The display name: the brand missing, empty, or given in two spellings;
\* a base name that starts with the brand or not, or is missing; the flavor
\* and the pack size empty, given, or unusable.
s_Clif_padded == <<32, 67, 108, 105, 102, 32>>   \* " Clif "
s_CLIF_Bar_padded == <<32, 67, 76, 73, 70, 32, 66, 97, 114, 32>>   \* " CLIF Bar "

MaxDisplayRows == 1

DisplayRows ==
    {[CsvBase EXCEPT !.brand = b, !.product_name = n, !.flavor = f, !.pack_size = s] :
        b \in {Absent, NaN, PyStr(s_Clif_padded), PyStr(s_clif)},
        n \in {Absent, PyStr(s_Bar), PyStr(s_CLIF_Bar_padded)},
        f \in {NaN, PyStr(s_blank), PyStr(s_Cherry_padded)},
        s \in {NaN, Money(6, 0), PyStr(s_abc)}}

DisplayInit ==
    \E rows \in SeqsUpTo(DisplayRows, MaxDisplayRows) : ColumnsConsistent(rows) /\ InitFrom(rows)

DisplaySpec == DisplayInit /\ [][BuildNext]_vars

\* group_deals on the same rows in two orders: flavors of one product (one
\* of them in two spellings, with two links and without a link), the product
\* at another price, and at no price.
MaxPermRows == 3

PermRows ==
    {JsonBase,
     [JsonBase EXCEPT !.flavor = PyStr(s_cherry), !.retailer_url = EmptyStr],
     [JsonBase EXCEPT !.flavor = PyStr(s_cherry), !.retailer_url = PyStr(s_u3)],
     [JsonBase EXCEPT !.flavor = PyStr(s_Vanilla), !.retailer_url = PyStr(s_u2)],
     [JsonBase EXCEPT !.new_price = Money(2, 50000)],
     [JsonBase EXCEPT !.new_price = NaN, !.flavor = PyStr(s_Apple)]}

PermInit ==
    /\ csv = <<>>
    /\ deals \in SeqsUpTo(PermRows, MaxPermRows)
    /\ origin = <<>>
    /\ groups = <<>>
    /\ deals_sorted = <<>>
    /\ cards = <<>>
    /\ previous = <<>>
    /\ names = NoName
    /\ pc = "group"
    /\ i = 1

PermNext == GroupRow \/ Finalize \/ Regroup

PermSpec == PermInit /\ [][PermNext]_vars

\* The quantity pill: the pack size missing from the file, empty, a count, a
\* fraction or a text, under categories and sections with and without "bar".
MaxUnitRows == 2

UnitRows ==
    {[CsvBase EXCEPT !.pack_size = s, !.category = c, !.section = t] :
        s \in {Absent, NaN, Money(1, 0), Money(6, 70000), PyStr(s_abc)},
        c \in {NaN, PyStr(s_Bar), PyStr(s_Chips)},
        t \in {PyStr(s_Food), PyStr(s_bars)}}

UnitInit ==
    \E rows \in SeqsUpTo(UnitRows, MaxUnitRows) : ColumnsConsistent(rows) /\ InitFrom(rows)

UnitSpec == UnitInit /\ [][BuildNext]_vars

(***************************************************************************)
(* Properties.                                                             *)
(***************************************************************************)
\* A cell that holds a finite number, as a number or as its decimal text.
IsNumber(x) == x.t \in {"int", "float"} \/ (x.t = "str" /\ IsFloatLiteral(x.s))

Families == 1..Len(groups)
Absorbed == UNION {groups[k].members : k \in Families}
LowerNames(flavor_data) == [k \in 1..Len(flavor_data) |-> lower(flavor_data[k].name)]

\* C1: a CSV row whose price is no usable number (a missing column, an empty
\* cell, text that is no number) yields no deal, and no family holds a deal
\* that came from such a row.
C1_UnusablePriceDropped ==
    /\ \A k \in 1..Len(origin) : IsNumber(Get(csv[origin[k]], "price"))
    /\ \A m \in Absorbed : IsNumber(Get(csv[origin[m]], "price"))

\* C2: every deal main() emits has 0 <= percent_off <= 100.
C2_PercentOffInRange ==
    \A k \in 1..Len(deals) :
        deals[k].percent_off.v >= 0 /\ deals[k].percent_off.v <= 100 * Scale

\* C3: no run of the two loops ends in an exception.
C3_NoFatalPath == pc # "raised"

\* C4: CSV records that agree on every column but flavor (and the link),
\* with "Cherry" and "Vanilla" among the flavors and any further record
\* repeating one of them in another letter case, come out of the two scripts
\* as exactly one family whose flavor_data names are Cherry, Vanilla in this
\* order.
FlavorVariants(rows) ==
    /\ \A k \in 1..Len(rows) :
          /\ \A c \in CsvColumns \ {"flavor", "canonical_url"} : rows[k][c] = CsvBase[c]
          /\ rows[k].flavor.t = "str"
          /\ lower(rows[k].flavor.s) \in {s_cherry, lower(s_Vanilla)}
          /\ rows[k].canonical_url.t = "str"
    /\ \E k \in 1..Len(rows) : rows[k].flavor.s = s_Cherry
    /\ \E k \in 1..Len(rows) : rows[k].flavor.s = s_Vanilla

C4_FlavorsFoldIntoOneFamily ==
    (pc = "done" /\ FlavorVariants(csv)) =>
        /\ Len(groups) = 1
        /\ LowerNames(groups[1].flavor_data) = <<s_cherry, lower(s_Vanilla)>>

\* The grouping key as the claims word it.  Text: trimmed and lower-cased,
\* an absent value as the empty text.  Prices: rounded to 4 decimals, None and
\* what float() refuses as null; a price that is not a number as itself.
Text(row, f) == lower(strip(OrEmpty(Get(row, f))))

Rounded4(x) ==
    IF IsNumber(x) THEN PyFloat(RoundDiv(FloatOf(x).v, 10) * 10)
    ELSE IF x.t = "nan" THEN NaN
    ELSE None

KeyView(row) ==
    [retailer |-> Text(row, "retailer"),
     section |-> Text(row, "section"),
     brand |-> lower(brand_of(row)),
     product_name |-> Text(row, "product_name"),
     pack_size |-> lower(pack_size_of(row)),
     price |-> Rounded4(Get(row, "new_price")),
     baseline |-> Rounded4(Get(row, "old_price"))]

\* The key of every deal, by position.
RECURSIVE ViewsUpTo(_)
ViewsUpTo(n) == IF n = 0 THEN <<>> ELSE Append(ViewsUpTo(n - 1), KeyView(deals[n]))

Views == ViewsUpTo(Len(deals))

FamilyOf(a) == CHOOSE k \in Families : a \in groups[k].members
FirstMember(g) == CHOOSE a \in g.members : \A b \in g.members : a <= b

\* C5: every row group_deals has consumed is in exactly one family, two of
\* them are in the same family exactly when their grouping keys are the same
\* (text trimmed and lower-cased, prices rounded to 4 decimals, a missing
\* component as the empty text or null), and on return no family is empty.
C5_OneFamilyPerKey ==
    LET v == Views
    IN
        /\ pc \in {"group", "done"} => Absorbed = 1..(i - 1)
        /\ \A a \in Absorbed : Cardinality({k \in Families : a \in groups[k].members}) = 1
        /\ \A a, b \in Absorbed : (v[a] = v[b]) <=> (FamilyOf(a) = FamilyOf(b))
        /\ pc = "done" => \A k \in Families : groups[k].members # {}

C7_FirstSeenRepresentative ==
    \A k \in Families :
        groups[k].members # {} => groups[k].rep = deals[FirstMember(groups[k])]

\* A family that absorbed, after its first row, a row that differs from it.
C7_Witness ==
    \E k \in Families : \E b \in groups[k].members :
        /\ b > FirstMember(groups[k])
        /\ deals[b].retailer # deals[FirstMember(groups[k])].retailer

\* C8: in every state of the pass each flavor entry has a non-empty name
\* and a non-empty url, no two entries of a family have the same name case
\* aside, and every absorbed row with a non-empty flavor name and url finds
\* its name, case aside, in its family's flavor_data.
C8_FlavorData ==
    \A k \in Families :
        LET fd == groups[k].flavor_data
        IN  /\ \A e \in 1..Len(fd) : fd[e].name # <<>> /\ fd[e].url # <<>>
            /\ \A e, f \in 1..Len(fd) : lower(fd[e].name) = lower(fd[f].name) => e = f
            /\ \A m \in groups[k].members :
                  (flavor_name_of(deals[m]) # <<>> /\ retailer_url_of(deals[m]) # <<>>) =>
                      \E e \in 1..Len(fd) : lower(fd[e].name) = lower(flavor_name_of(deals[m]))

\* A family that absorbed two spellings of one flavor, both with a url, and a
\* row without url.
C8_Witness ==
    \E k \in Families : \E a, b, c \in groups[k].members :
        /\ flavor_name_of(deals[a]) # flavor_name_of(deals[b])
        /\ lower(flavor_name_of(deals[a])) = lower(flavor_name_of(deals[b]))
        /\ retailer_url_of(deals[a]) # <<>> /\ retailer_url_of(deals[b]) # <<>>
        /\ retailer_url_of(deals[c]) = <<>>

\* C9: when group_deals returns, each family's flavor_data ascends by
\* lower-cased name, flavor_sample is its first min(2, n) entries,
\* flavor_extra_data the rest, flavor_extra_count the length of the rest, and
\* sample and rest together are flavor_data.
C9_SortedAndSplit ==
    pc = "done" =>
        \A k \in Families :
            LET g == groups[k]
                fd == g.flavor_data
                n == Len(fd)
            IN  /\ \A e, f \in 1..n : e < f => ~StrLess(lower(fd[f].name), lower(fd[e].name))
                /\ g.flavor_sample = SubSeq(fd, 1, Min(2, n))
                /\ g.flavor_extra_data = SubSeq(fd, Min(2, n) + 1, n)
                /\ g.flavor_extra_count = Len(g.flavor_extra_data)
                /\ g.flavor_sample \o g.flavor_extra_data = fd

\* A returned family of three flavors whose first row does not carry the
\* first name.
C9_Witness ==
    /\ pc = "done"
    /\ \E k \in Families :
          /\ Len(groups[k].flavor_data) = 3
          /\ groups[k].flavor_extra_count = 1
          /\ groups[k].flavor_data[1].name # flavor_name_of(deals[FirstMember(groups[k])])

\* C10: a deal whose row has a numeric pct_off gets round(pct_off * 100, 1),
\* so two deals with the same numeric pct_off get the same percent_off, be
\* their prices and baselines what they may; 0.37 gives 37.0.
C10_ExplicitDiscountTrusted ==
    /\ \A a, b \in 1..Len(deals) :
          (/\ IsNumber(csv[origin[a]].pct_off)
           /\ csv[origin[a]].pct_off = csv[origin[b]].pct_off) =>
              deals[a].percent_off = deals[b].percent_off
    /\ \A a \in 1..Len(deals) :
          csv[origin[a]].pct_off = Money(0, 37000) => deals[a].percent_off = Money(37, 0)

\* Two deals with pct_off 0.37, one with a baseline of 20 above its price,
\* one with no baseline and another price.
C10_Witness ==
    \E a, b \in 1..Len(deals) :
        /\ csv[origin[a]].pct_off = Money(0, 37000)
        /\ csv[origin[b]].pct_off = Money(0, 37000)
        /\ csv[origin[a]].baseline = Money(20, 0)
        /\ csv[origin[a]].price = Money(10, 0)
        /\ csv[origin[b]].baseline = NaN
        /\ csv[origin[b]].price # csv[origin[a]].price

\* C11: a deal whose row has no numeric pct_off, a numeric baseline > 0 and a
\* numeric price <= baseline gets (baseline - price) / baseline * 100 (rounded
\* to one decimal by main); get_percent_off of such a row is in [0, 100) when
\* the price is > 0; baseline 20 and price 15 give 25.0.
C11_BaselineFallback ==
    \A k \in 1..Len(deals) :
        LET row == csv[origin[k]]
            b == FloatOf(Get(row, "baseline")).v
            p == FloatOf(Get(row, "price")).v
            q == get_percent_off(row)
        IN  (/\ ~IsNumber(Get(row, "pct_off"))
             /\ IsNumber(Get(row, "baseline"))
             /\ IsNumber(Get(row, "price"))
             /\ b > 0
             /\ p <= b) =>
                /\ deals[k].percent_off = RoundPct(Pct((b - p) * 100, b))
                /\ p > 0 => (q.n >= 0 /\ q.n < 100 * q.d)
                /\ (b = 20 * Scale /\ p = 15 * Scale) => deals[k].percent_off = Money(25, 0)

\* A deal from a row with pct_off "abc", baseline 20 and price 15.
C11_Witness ==
    \E k \in 1..Len(deals) :
        /\ csv[origin[k]].pct_off = PyStr(s_abc)
        /\ csv[origin[k]].baseline = Money(20, 0)
        /\ csv[origin[k]].price = Money(15, 0)
        /\ deals[k].percent_off = Money(25, 0)

\* C12: a deal whose row has no numeric pct_off and whose baseline is
\* missing, no number, not above 0 or below the price gets percent_off 0.0.
C12_NoBaselineNoDiscount ==
    \A k \in 1..Len(deals) :
        LET row == csv[origin[k]]
            baseline == Get(row, "baseline")
            price == Get(row, "price")
        IN  (/\ ~IsNumber(Get(row, "pct_off"))
             /\ \/ ~IsNumber(baseline)
                \/ FloatOf(baseline).v <= 0
                \/ (IsNumber(price) /\ FloatOf(baseline).v < FloatOf(price).v)) =>
                deals[k].percent_off = PyFloat(0)

\* Two deals without explicit discount: one whose price rose from 10 to 15,
\* one with baseline 0.
C12_Witness ==
    \E a, b \in 1..Len(deals) :
        /\ csv[origin[a]].pct_off = NaN
        /\ csv[origin[a]].baseline = Money(10, 0)
        /\ csv[origin[a]].price = Money(15, 0)
        /\ csv[origin[b]].pct_off = NaN
        /\ csv[origin[b]].baseline = Money(0, 0)
        /\ deals[a].percent_off = PyFloat(0)
        /\ deals[b].percent_off = PyFloat(0)

\* C13: every card's badge follows the percent_off of its family with the
\* lower bounds inclusive: >= 25 elite, [20, 25) strong, [10, 20) protein,
\* [0, 10) everyday, below 0 no badge.
C13_BadgeTiers ==
    pc = "page" =>
        \A k \in 1..Len(cards) :
            LET x == deals_sorted[k].rep.percent_off.v
                b == cards[k].badge_class
            IN  /\ x >= 25 * Scale <=> b = badge_elite
                /\ (20 * Scale <= x /\ x < 25 * Scale) <=> b = badge_strong
                /\ (10 * Scale <= x /\ x < 20 * Scale) <=> b = badge_protein
                /\ (0 <= x /\ x < 10 * Scale) <=> b = badge_everyday
                /\ x < 0 <=> b = ""

\* A page with a family at exactly 25.0, one at exactly 10.0 and one at -10.0.
C13_Witness ==
    /\ pc = "page"
    /\ \E a, b, c \in 1..Len(cards) :
          /\ deals_sorted[a].rep.percent_off = Money(25, 0) /\ cards[a].badge_class = badge_elite
          /\ deals_sorted[b].rep.percent_off = Money(10, 0) /\ cards[b].badge_class = badge_protein
          /\ deals_sorted[c].rep.percent_off = Money(-10, 0) /\ cards[c].badge_class = ""

\* The order of the page as the claims word it: by lower-cased retailer, then
\* lower-cased category, then percent_off descending, then new_price
\* ascending.
OrderText(d, f) == lower(OrEmpty(Get(d, f)))
NumLess(x, y) == IsNumber(x) /\ IsNumber(y) /\ FloatOf(x).v < FloatOf(y).v

Before(x, y) ==
    IF OrderText(x, "retailer") # OrderText(y, "retailer")
    THEN StrLess(OrderText(x, "retailer"), OrderText(y, "retailer"))
    ELSE IF OrderText(x, "category") # OrderText(y, "category")
    THEN StrLess(OrderText(x, "category"), OrderText(y, "category"))
    ELSE IF x.percent_off # y.percent_off
    THEN NumLess(y.percent_off, x.percent_off)
    ELSE NumLess(x.new_price, y.new_price)

SameSortKey(x, y) ==
    /\ OrderText(x, "retailer") = OrderText(y, "retailer")
    /\ OrderText(x, "category") = OrderText(y, "category")
    /\ x.percent_off = y.percent_off
    /\ x.new_price = y.new_price

Pos(g) == CHOOSE k \in 1..Len(deals_sorted) : deals_sorted[k] = g

\* C14: the default order is a permutation of the families in which no
\* family stands before one that the order (retailer, category, percent_off
\* descending, new_price ascending) puts before it; within one retailer and
\* category the higher percent_off comes first.
C14_DefaultOrder ==
    pc \in {"sorted", "page"} =>
        /\ Len(deals_sorted) = Len(groups)
        /\ \A k \in 1..Len(groups) : \E j \in 1..Len(deals_sorted) : deals_sorted[j] = groups[k]
        /\ \A a, b \in 1..Len(deals_sorted) :
              a < b => ~Before(deals_sorted[b].rep, deals_sorted[a].rep)
        /\ \A a, b \in 1..Len(deals_sorted) :
              (/\ OrderText(deals_sorted[a].rep, "retailer") = OrderText(deals_sorted[b].rep, "retailer")
               /\ OrderText(deals_sorted[a].rep, "category") = OrderText(deals_sorted[b].rep, "category")
               /\ NumLess(deals_sorted[b].rep.percent_off, deals_sorted[a].rep.percent_off)) => a < b

\* C15: two families whose sort keys are equal stand on the page in the
\* order in which group_deals returned them.
C15_StableOrder ==
    pc \in {"sorted", "page"} =>
        \A a, b \in 1..Len(groups) :
            (a < b /\ SameSortKey(groups[a].rep, groups[b].rep)) =>
                Pos(groups[a]) < Pos(groups[b])

\* Two families with equal sort keys, sorted behind a family that came after
\* them.
C15_Witness ==
    /\ pc = "page"
    /\ \E a, b, c \in 1..Len(groups) :
          /\ a < b /\ b < c
          /\ SameSortKey(groups[a].rep, groups[b].rep)
          /\ Pos(groups[c]) < Pos(groups[a])
          /\ Pos(groups[a]) < Pos(groups[b])

Kept(a) == \E k \in 1..Len(origin) : origin[k] = a
DealFrom(a) == deals[CHOOSE k \in 1..Len(origin) : origin[k] = a]

NumericColumns ==
    {"price", "baseline", "pct_off", "pack_size", "deal_streak_days", "streak_days",
     "deal_streak", "days_on_deal"}

Malformed(x) == x.t = "str" /\ ~IsFloatLiteral(x.s)

\* C17: when main() has gone through the file, two rows of which one has a
\* text that is no number where the other has an empty cell, and which are
\* equal otherwise, are both dropped or both kept, and kept with the same
\* deal.
C17_MalformedAsMissing ==
    pc = "written" =>
        \A a, b \in 1..Len(csv) : \A f \in NumericColumns :
            (Malformed(csv[a][f]) /\ csv[b] = [csv[a] EXCEPT ![f] = NaN]) =>
                /\ Kept(a) <=> Kept(b)
                /\ (Kept(a) /\ Kept(b)) => DealFrom(a) = DealFrom(b)

\* The cell of the first streak column the file has, Absent when it has none.
RECURSIVE first_present_from(_, _)
first_present_from(row, k) ==
    IF k > Len(streak_cols) THEN Absent
    ELSE IF row[streak_cols[k]] # Absent THEN row[streak_cols[k]]
    ELSE first_present_from(row, k + 1)

FirstStreakCell(row) == first_present_from(row, 1)

\* C18: two kept rows with the same cell in the first streak column present
\* get the same streak_days, whatever the later columns hold.
C18_FirstStreakColumnWins ==
    \A a, b \in 1..Len(deals) :
        (/\ FirstStreakCell(csv[origin[a]]) # Absent
         /\ FirstStreakCell(csv[origin[a]]) = FirstStreakCell(csv[origin[b]])) =>
            deals[a].streak_days = deals[b].streak_days

\* C19: every deal's streak_days is null or an integer >= 1, and null when
\* the file has no streak column or the cell of the first one is empty, no
\* number or below 1.
C19_StreakNullOrPositive ==
    \A k \in 1..Len(deals) :
        LET used == FirstStreakCell(csv[origin[k]])
            streak == deals[k].streak_days
        IN  /\ streak = None \/ (streak.t = "int" /\ streak.v >= 1)
            /\ (\/ used = Absent
                \/ isna(used)
                \/ IntRaises(used)
                \/ IntOf(used) < 1) => streak = None

\* A structured field as the claim reads it: its text trimmed, empty when
\* the deal has none.
Given(row, f) == IF Get(row, f).t = "str" THEN strip(Get(row, f).s) ELSE <<>>
FirstToken(name) == IF split(name) = <<>> THEN <<>> ELSE Head(split(name))

WantedBrand(row) ==
    IF Given(row, "brand") # <<>> THEN Given(row, "brand")
    ELSE FirstToken(Given(row, "product_name"))

WantedFlavor(row) ==
    IF Given(row, "flavor") # <<>> THEN Given(row, "flavor")
    ELSE extract_flavor_from_product_name(Given(row, "product_name"))

\* C20: for every row absorbed, the brand of its family's key is the row's
\* brand field when that is non-empty after trimming and else the first
\* token of the product name, and the flavor it contributes is its flavor
\* field when non-empty after trimming and else what
\* extract_flavor_from_product_name makes of the product name: the family
\* lists that flavor, and spelled that way when the row opened the family.
C20_StructuredFieldsFirst ==
    \A k \in Families : \A m \in groups[k].members :
        LET row == deals[m]
            fd == groups[k].flavor_data
        IN  /\ groups[k].key.brand = lower(WantedBrand(row))
            /\ (WantedFlavor(row) # <<>> /\ retailer_url_of(row) # <<>>) =>
                  /\ \E e \in 1..Len(fd) : lower(fd[e].name) = lower(WantedFlavor(row))
                  /\ m = FirstMember(groups[k]) =>
                        \E e \in 1..Len(fd) : fd[e].name = WantedFlavor(row)

\* Two rows absorbed: one with a brand field that is not the first token of
\* its name and no flavor field, one with a blank brand and a flavor field.
C20_Witness ==
    \E a, b \in Absorbed :
        /\ deals[a].brand = PyStr(s_Bar_padded) /\ deals[a].flavor = Absent
        /\ deals[b].brand = PyStr(s_blank) /\ deals[b].flavor = PyStr(s_Cherry_padded)


\* The name both heuristics work on (the pack size stripped), its tokens, and
\* the known product-type phrases that occur in it, case aside.
NamePart == strip_parenthetical(names.product_name)
NameWords == split(NamePart)
ProductTypes == {product_types_by_length[k] : k \in 1..Len(product_types_by_length)}
Occurring == {p \in ProductTypes : contains(lower(NamePart), p)}
BothExtracted == pc = "names" /\ names.base # None /\ names.flavor # None
EndsWithType(s) ==
    \E p \in ProductTypes :
        Len(p) <= Len(s) /\ SubSeq(lower(s), Len(s) - Len(p) + 1, Len(s)) = p

\* C21: for a name in which a known product-type phrase occurs, the base
\* name and the flavor are the two sides of one occurrence of a phrase: the
\* base name is the text up to the end of that occurrence, the flavor the
\* text after it, nothing twice and nothing left out.
C21_BaseThenFlavor ==
    (BothExtracted /\ Occurring # {}) =>
        \E k \in 1..Len(NamePart) :
            /\ EndsWithType(SubSeq(NamePart, 1, k))
            /\ names.base.s = strip(SubSeq(NamePart, 1, k))
            /\ names.flavor.s = strip(SubSeq(NamePart, k + 1, Len(NamePart)))

\* C22: the base name is the text up to the end of the first occurrence of
\* the longest product-type phrase that occurs in the name: a shorter phrase
\* that occurs earlier, or inside it, does not decide the cut.
C22_LongestTypeEndsBase ==
    (pc = "names" /\ names.base # None /\ Occurring # {}) =>
        \E p \in Occurring :
            /\ \A q \in Occurring : Len(q) <= Len(p)
            /\ names.base.s = strip(SubSeq(NamePart, 1, find(lower(NamePart), p) + Len(p)))

\* "Barebells Protein Bar": "bar" occurs before "protein bar", and the base
\* name has been cut after "protein bar".
C22_Witness ==
    /\ pc = "names"
    /\ names.base # None
    /\ product_types_by_length[3] \in Occurring
    /\ find(lower(NamePart), s_bar) < find(lower(NamePart), product_types_by_length[3])
    /\ \A q \in Occurring : Len(q) <= Len(product_types_by_length[3])
    /\ EndsWithType(names.base.s)
    /\ Len(names.base.s) = Len(NamePart)

\* C23: when no product-type phrase occurs in the name, the base name is its
\* first two tokens and the flavor is every token after the first, whatever
\* the number of tokens.
C23_FallbackTokens ==
    (BothExtracted /\ names.product_name # <<>> /\ Occurring = {}) =>
        /\ names.base.s = join(SubSeq(NameWords, 1, Min(2, Len(NameWords))))
        /\ names.flavor.s = join(SubSeq(NameWords, 2, Len(NameWords)))

\* C30: the heuristics cut a name only between two words: the words of the
\* base name are the first words of the name, the words of the flavor are its
\* last words.
C30_WholeWordsOnly ==
    BothExtracted =>
        /\ \E j \in 0..Len(NameWords) : split(names.base.s) = SubSeq(NameWords, 1, j)
        /\ \E j \in 1..(Len(NameWords) + 1) :
               split(names.flavor.s) = SubSeq(NameWords, j, Len(NameWords))


\* The segments of a display name as the claim composes them: a field that
\* is a text, trimmed; the pack size as "(Nct)" when it is a count.
BrandSegment(row) ==
    IF Given(row, "brand") # <<>>
          /\ ~startswith(lower(Given(row, "product_name")), lower(Given(row, "brand")))
    THEN <<Given(row, "brand")>> ELSE <<>>
TextSegment(row, f) == IF Given(row, f) # <<>> THEN <<Given(row, f)>> ELSE <<>>
PackSegment(row) ==
    IF IsNumber(Get(row, "pack_size")) /\ ~IntRaises(Get(row, "pack_size"))
          /\ IntOf(Get(row, "pack_size")) # 0
    THEN <<(<<LPAREN>> \o IntToStr(IntOf(Get(row, "pack_size"))) \o s_ct \o <<RPAREN>>)>>
    ELSE <<>>
Segments(row) ==
    BrandSegment(row) \o TextSegment(row, "product_name") \o TextSegment(row, "flavor")
        \o PackSegment(row)
TwiceBrand(row) == lower(Given(row, "brand")) \o <<SPACE>> \o lower(Given(row, "brand"))

\* C24: the product_name of every deal is the trimmed brand, base name,
\* flavor and "(Nct)" of its row, in this order with one space between, the
\* brand left out exactly when the base name starts with it, case aside; the
\* name starts with the brand twice only if the base name already does.
C24_DisplayName ==
    \A k \in 1..Len(deals) :
        LET row == csv[origin[k]]
            name == deals[k].product_name.s
        IN  /\ Segments(row) # <<>> => name = join(Segments(row))
            /\ (Given(row, "brand") # <<>> /\ startswith(lower(name), TwiceBrand(row)))
                   => startswith(lower(Given(row, "product_name")), TwiceBrand(row))

\* A deal whose row gives the brand "clif" and the base name " CLIF Bar ", a
\* flavor and a pack size: the name is "CLIF Bar Cherry (6ct)".
C24_Witness ==
    \E k \in 1..Len(deals) :
        LET row == csv[origin[k]]
        IN  /\ Given(row, "brand") = s_clif
            /\ Given(row, "product_name") = strip(s_CLIF_Bar_padded)
            /\ Len(Segments(row)) = 3
            /\ deals[k].product_name.s = strip(s_CLIF_Bar_padded) \o <<SPACE>> \o s_Cherry
                   \o <<SPACE, LPAREN, 54>> \o s_ct \o <<RPAREN>>


\* C25: when group_deals returns, every row is a member of exactly one
\* family, which is the one family that has the row's key; no family is
\* empty, there are no more families than rows, and the families stand in
\* the order of their first rows.
C25_FamiliesPartitionRows ==
    pc = "done" =>
        /\ \A r \in 1..Len(deals) :
               /\ Cardinality({g \in Families : r \in groups[g].members}) = 1
               /\ Cardinality({g \in Families : groups[g].key = GroupKey(deals[r], r)}) = 1
               /\ groups[FamilyOf(r)].key = GroupKey(deals[r], r)
        /\ \A g \in Families : groups[g].members # {}
        /\ Len(groups) <= Len(deals)
        /\ \A g, h \in Families :
               g < h => FirstMember(groups[g]) < FirstMember(groups[h])

\* Three rows in two families, the first family holding the first and the
\* third row.
C25_Witness ==
    /\ pc = "done"
    /\ Len(deals) = 3
    /\ Len(groups) = 2
    /\ groups[1].members = {1, 3}
    /\ groups[2].members = {2}


KeyValue(key) ==
    [key EXCEPT !.price_key = IF @.t = "nan" THEN NaN ELSE @,
                !.baseline_key = IF @.t = "nan" THEN NaN ELSE @]
NameSet(flavor_data) == {lower(flavor_data[k].name) : k \in 1..Len(flavor_data)}
KeysAndNames(gs) == {<<KeyValue(gs[g].key), NameSet(gs[g].flavor_data)>> : g \in 1..Len(gs)}

\* C27: group_deals called on the same rows in another order returns
\* families with the same grouping keys and, for each key, the same set of
\* lower-cased flavor names.
C27_OrderOfRowsIrrelevant ==
    previous # <<>> =>
        /\ pc # "raised"
        /\ pc = "done" => KeysAndNames(groups) = KeysAndNames(previous[1].families)

\* The second call has returned; it was given three rows of which the first
\* call saw the last one first, and the families came out in another order.
C27_Witness ==
    /\ previous # <<>>
    /\ pc = "done"
    /\ Len(deals) = 3
    /\ deals[1] = previous[1].deals[3]
    /\ deals[1] # deals[3]
    /\ Len(groups) = 2
    /\ groups[1].key = previous[1].families[2].key
    /\ \E g \in Families : Cardinality(NameSet(groups[g].flavor_data)) = 2


\* The link of a row: retailer_url, else canonical_url, trimmed.
WantedUrl(row) ==
    IF Given(row, "retailer_url") # <<>> THEN Given(row, "retailer_url")
    ELSE Given(row, "canonical_url")

\* The rows of family g that carry the flavor name of entry e, case aside,
\* together with a link.
Carriers(g, e) ==
    {m \in groups[g].members :
        /\ lower(WantedFlavor(deals[m])) = lower(groups[g].flavor_data[e].name)
        /\ WantedUrl(deals[m]) # <<>>}

\* C28: in every state of the pass and on return, each flavor entry of a
\* family has the spelling and the url of the first row of the family, in
\* input order, that carries this name (case aside) with a non-empty url.
C28_FirstDuplicateKept ==
    pc \in {"group", "done"} =>
        \A g \in Families : \A e \in 1..Len(groups[g].flavor_data) :
            /\ Carriers(g, e) # {}
            /\ LET first == CHOOSE m \in Carriers(g, e) : \A n \in Carriers(g, e) : m <= n
               IN  /\ groups[g].flavor_data[e].name = WantedFlavor(deals[first])
                   /\ groups[g].flavor_data[e].url = WantedUrl(deals[first])

\* A family on return with three rows of one flavor name: the first without
\* a link, the second with one, the third with another spelling and link; the
\* entry is the second row's.
C28_Witness ==
    /\ pc = "done"
    /\ Len(deals) = 3
    /\ lower(WantedFlavor(deals[1])) = lower(WantedFlavor(deals[2]))
    /\ \E g \in Families :
           /\ groups[g].members = {1, 2, 3}
           /\ Len(groups[g].flavor_data) = 1
           /\ WantedUrl(deals[1]) = <<>>
           /\ Carriers(g, 1) = {2, 3}
           /\ <<WantedFlavor(deals[3]), WantedUrl(deals[3])>>
                  # <<WantedFlavor(deals[2]), WantedUrl(deals[2])>>
           /\ groups[g].flavor_data[1].url = WantedUrl(deals[2])


\* The pack size of a row as a count: null when the cell is missing, empty
\* or no integer, else the integer (a fraction cut off).
WantedCount(row) ==
    LET pack_size == Get(row, "pack_size")
    IN  IF pack_size.t \in {"int", "float"} THEN PyInt(IntOf(pack_size))
        ELSE IF pack_size.t = "str" /\ IsIntLiteral(pack_size.s) THEN PyInt(IntLiteral(pack_size.s))
        ELSE None
SaysBar(row) == contains(Text(row, "category"), s_bar) \/ contains(Text(row, "section"), s_bar)

\* C29: in every deal pack_count and pack_unit are both null or both not;
\* both null exactly when the row's pack size is missing or no integer; else
\* pack_count is the integer pack size and pack_unit is "bar" (one) or "bars"
\* (not one) when the category or the section says "bar", and "ct" otherwise.
C29_UnitLabel ==
    \A k \in 1..Len(deals) :
        LET row == csv[origin[k]]
            d == deals[k]
        IN  /\ (d.pack_count = None) <=> (d.pack_unit = None)
            /\ (d.pack_count = None) <=> (WantedCount(row) = None)
            /\ d.pack_count = WantedCount(row)
            /\ d.pack_count # None =>
                   d.pack_unit = PyStr(IF ~SaysBar(row) THEN s_ct
                                       ELSE IF d.pack_count.v = 1 THEN s_bar ELSE s_bars)

\* Two deals of one file: one from a row without pack size, with null count
\* and unit, one from a row with a pack size of 6.7 under the section "bars",
\* with 6 and "bars".
C29_Witness ==
    \E a, b \in 1..Len(deals) :
        /\ csv[origin[a]].pack_size = NaN
        /\ deals[a].pack_count = None /\ deals[a].pack_unit = None
        /\ csv[origin[b]].pack_size = Money(6, 70000)
        /\ deals[b].pack_count = PyInt(6) /\ deals[b].pack_unit = PyStr(s_bars)

=============================================================================
